---- MODULE Spec2Model ----
(***************************************************************************)
(* Model of classes/constitutive_law.py (PyPD): the Linear constitutive    *)
(* law (parameter derivation and the damage-evaluator factory), the        *)
(* ConstitutiveLaw base class with its reserved subclasses, and the        *)
(* per-bond damage update driven by a caller.                              *)
(*                                                                         *)
(* Numbers.  Real values are exact.                                        *)
(*   - A non-negative real that the law derives (c, sc) is a record       *)
(*     [kind, n, d, rt]: kind "fin" carries the fraction n/d in lowest     *)
(*     terms, "inf" and "nan" are the IEEE results numpy produces, and     *)
(*     "ZeroDivisionError" is the exception a Python float division by     *)
(*     zero raises.  pi is kept symbolic:                                  *)
(*       rt = FALSE, the quotient c:        the real (n/d) / pi            *)
(*       rt = TRUE,  the square root sc:    the real sqrt(pi * n/d)        *)
(*   - a stretch is an integer k standing for k * sqrt(pi) / 3, so that    *)
(*     the grid holds exact critical stretches (E = Gf = horizon = 1       *)
(*     gives sc = sqrt(4 pi / 9) = 2 * sqrt(pi) / 3, the grid step 2).     *)
(*   - a damage is an integer k standing for k / DRes; 1.0 is DRes.        *)
(***************************************************************************)
EXTENDS Integers, FiniteSets, Sequences, TLC

\* ------------------------------------------------------------------ bounds
MaxParam == 2      \* E, Gf, horizon, thickness range over 0..MaxParam
MaxStretch == 3    \* stretches range over -1..MaxStretch grid steps
DRes == 2          \* damage grid: k / DRes, k in -1..DRes+1
NInst == 2         \* Linear objects that can be constructed
NBonds == 2        \* bonds whose damage the caller stores
NWorkers == 2      \* workers of the concurrent step

\* ------------------------------------------------------- program constants
TNum == 25         \* t = 2.5E-3 = TNum / TDen
TDen == 10000

Params == 0..MaxParam
Stretches == (-1)..MaxStretch
Damages == (-1)..(DRes + 1)
One == DRes
ValidDamages == 0..DRes
InstIds == 1..NInst
EvalIds == 1..2
Bonds == 1..NBonds
Workers == 1..NWorkers
Reserved == {"Bilinear", "Trilinear", "NonLinear"}
BaseOps == {"__init__", "required_parameters", "calculate_parameter_values",
            "calculate_bond_damage"}

VARIABLES inst, evalr, bond, last, resv, step, wk

vars == <<inst, evalr, bond, last, resv, step, wk>>

\* --------------------------------------------------------------- arithmetic
RECURSIVE GCD(_, _)
GCD(a, b) == IF b = 0 THEN a ELSE GCD(b, a % b)

Fin(n, d) ==
    LET g == GCD(n, d)
    IN  [kind |-> "fin", n |-> n \div g, d |-> d \div g, rt |-> FALSE]
Inf == [kind |-> "inf", n |-> 0, d |-> 0, rt |-> FALSE]
NaN == [kind |-> "nan", n |-> 0, d |-> 0, rt |-> FALSE]
ZeroDivisionError == [kind |-> "ZeroDivisionError", n |-> 0, d |-> 0, rt |-> FALSE]

\* num / den for non-negative operands.  Python floats raise on a zero
\* divisor; numpy float64 scalars return inf or nan (with a warning).
Divide(num, den, numpy) ==
    IF den # 0 THEN Fin(num, den)
    ELSE IF ~numpy THEN ZeroDivisionError
    ELSE IF num = 0 THEN NaN ELSE Inf

\* np.sqrt of a non-negative value: inf and nan are kept, a finite n/d
\* becomes the root of n/d.
Sqrt(x) == IF x.kind = "fin" THEN [x EXCEPT !.rt = TRUE] ELSE x

IsPositiveFinite(x) == x.kind = "fin" /\ x.n > 0

\* stretch > sc for the stretch k * sqrt(pi) / 3 and sc = sqrt(pi * n/d):
\* both sides are non-negative roots when k > 0, so the squares decide;
\* a comparison with nan is false, and nothing exceeds inf.
GreaterThan(k, sc) ==
    /\ sc.kind = "fin"
    /\ k > 0
    /\ k * k * sc.d > 9 * sc.n

\* the real k * sqrt(pi) / 3, k >= 0, in the representation of sc
StretchValue(k) == Sqrt(Fin(k * k, 9))

\* ------------------------------------------------------------ Linear class
calculate_bond_stiffness(material, particles) ==
    Divide(9 * material.E * TDen,
           TNum * particles.horizon * particles.horizon * particles.horizon,
           material.numpy)

calculate_critical_stretch(material, particles) ==
    Sqrt(Divide(4 * material.Gf, 9 * material.E * particles.horizon, material.numpy))

NoInst == [state |-> "none", E |-> 0, Gf |-> 0, horizon |-> 0, thickness |-> 0,
           numpy |-> FALSE, c |-> NaN, sc |-> NaN]

\* Linear(material, particles): the object, or the exception that ended
\* __init__ (state names the outcome; the arguments are kept for reference).
Linear_init(material, particles) ==
    LET c == calculate_bond_stiffness(material, particles)
        sc == calculate_critical_stretch(material, particles)
        args == [E |-> material.E, Gf |-> material.Gf, horizon |-> particles.horizon,
                 thickness |-> particles.thickness, numpy |-> material.numpy]
    IN  IF c.kind = "ZeroDivisionError"
          THEN args @@ [state |-> "ZeroDivisionError", c |-> NaN, sc |-> NaN]
        ELSE IF sc.kind = "ZeroDivisionError"
          THEN args @@ [state |-> "ZeroDivisionError", c |-> NaN, sc |-> NaN]
        ELSE args @@ [state |-> "ok", c |-> c, sc |-> sc]

\* solver.constitutive_model.linear
linear(stretch, d, sc) == IF GreaterThan(stretch, sc) THEN One ELSE d

wrapper_drops_d(stretch, d, sc) == linear(stretch, 0, sc)
wrapper_negates(stretch, d, sc) == linear(-stretch, d, sc)

\* the closure returned by calculate_bond_damage(sc)
wrapper(stretch, d, sc) == linear(stretch, d, sc)

NoEval == [made |-> FALSE, owner |-> 0, arg |-> NaN, sc |-> NaN]
NoLast == [e |-> 0, b |-> 0, stretch |-> 0, d |-> 0, ret |-> 0, raised |-> ""]
NoResv == [variant |-> "", op |-> "", outcome |-> ""]
NoWorker == [pc |-> "idle", b |-> 0, tmp |-> 0]

NoStep == [stretch |-> [b \in Bonds |-> 0], d0 |-> [b \in Bonds |-> 0],
           asg |-> [b \in Bonds |-> 1], sc0 |-> NaN, done |-> {}]

Constructed == {i \in InstIds : inst[i].state = "ok"}

\* thresholds a caller can pass: an instance's sc, or any grid value
ScArgs == {inst[i].sc : i \in Constructed} \cup {StretchValue(k) : k \in 0..MaxStretch}

\* --------------------------------------------------------------- operations
\* law = Linear(material, particles)
Construct(i, E, Gf, horizon, thickness, numpy) ==
    /\ inst[i].state = "none"
    /\ inst' = [inst EXCEPT ![i] =
                  Linear_init([E |-> E, Gf |-> Gf, numpy |-> numpy],
                              [horizon |-> horizon, thickness |-> thickness])]
    /\ UNCHANGED <<evalr, bond, last, resv, step, wk>>

calculate_bond_damage_sets_self(e, owner, sc) ==
    /\ ~evalr[e].made
    /\ evalr' = [evalr EXCEPT ![e] = [made |-> TRUE, owner |-> owner, arg |-> sc, sc |-> sc]]
    /\ inst' = [i \in InstIds |-> IF i = owner THEN [inst[i] EXCEPT !.sc = sc] ELSE inst[i]]
    /\ UNCHANGED <<bond, last, resv, step, wk>>

calculate_bond_damage_stale_sc(e, owner, sc) ==
    /\ ~evalr[e].made
    /\ evalr' = [evalr EXCEPT ![e] =
                   [made |-> TRUE, owner |-> owner, arg |-> sc, sc |-> StretchValue(0)]]
    /\ UNCHANGED <<inst, bond, last, resv, step, wk>>

calculate_bond_damage_shared_cell(e, owner, sc) ==
    /\ ~evalr[e].made
    /\ evalr' = [x \in EvalIds |->
                   IF x = e THEN [made |-> TRUE, owner |-> owner, arg |-> sc, sc |-> sc]
                   ELSE IF evalr[x].made THEN [evalr[x] EXCEPT !.sc = sc]
                   ELSE evalr[x]]
    /\ UNCHANGED <<inst, bond, last, resv, step, wk>>

\* evaluator = law.calculate_bond_damage(sc)   (owner = 0: called on the class)
\* A static method: the closure's sc is the argument, a fresh cell per call.
calculate_bond_damage(e, owner, sc) ==
    /\ ~evalr[e].made
    /\ evalr' = [evalr EXCEPT ![e] = [made |-> TRUE, owner |-> owner, arg |-> sc, sc |-> sc]]
    /\ UNCHANGED <<inst, bond, last, resv, step, wk>>

\* evaluator(stretch, d) with any d; the result is returned, nothing raised
Call(e, stretch, d) ==
    /\ evalr[e].made
    /\ last' = [e |-> e, b |-> 0, stretch |-> stretch, d |-> d,
                ret |-> wrapper(stretch, d, evalr[e].sc), raised |-> ""]
    /\ UNCHANGED <<inst, evalr, bond, resv, step, wk>>

\* bond.d = evaluator(stretch, bond.d): the stored damage fed forward
Evaluate(e, b, stretch) ==
    /\ evalr[e].made
    /\ LET r == wrapper(stretch, bond[b], evalr[e].sc)
       IN  /\ bond' = [bond EXCEPT ![b] = r]
           /\ last' = [e |-> e, b |-> b, stretch |-> stretch, d |-> bond[b],
                        ret |-> r, raised |-> ""]
    /\ UNCHANGED <<inst, evalr, resv, step, wk>>

\* ConstitutiveLaw methods as the reserved subclasses inherit them
BaseOutcome(op) ==
    CASE op = "__init__" -> "TypeError"
      [] op = "required_parameters" -> "None"
      [] op = "calculate_parameter_values" -> "NotImplementedError"
      [] op = "calculate_bond_damage" -> "None"

\* Bilinear() / Bilinear.op() and likewise for Trilinear, NonLinear
ReservedCall(variant, op) ==
    /\ resv' = [variant |-> variant, op |-> op, outcome |-> BaseOutcome(op)]
    /\ UNCHANGED <<inst, evalr, bond, last, step, wk>>

\* A worker calls the shared evaluator for one of its own bonds ...
WorkerEvaluate(w, b) ==
    /\ wk[w].pc = "idle"
    /\ step.asg[b] = w
    /\ b \notin step.done
    /\ evalr[1].made
    /\ wk' = [wk EXCEPT ![w] = [pc |-> "hold", b |-> b,
                                tmp |-> wrapper(step.stretch[b], bond[b], evalr[1].sc)]]
    /\ UNCHANGED <<inst, evalr, bond, last, resv, step>>

\* ... and writes the result back to that bond
WorkerStore(w) ==
    /\ wk[w].pc = "hold"
    /\ bond' = [bond EXCEPT ![wk[w].b] = wk[w].tmp]
    /\ step' = [step EXCEPT !.done = @ \cup {wk[w].b}]
    /\ wk' = [wk EXCEPT ![w] = NoWorker]
    /\ UNCHANGED <<inst, evalr, last, resv>>

\* ---------------------------------------------------------- specifications
TypeOK ==
    /\ \A i \in InstIds : inst[i].state \in {"none", "ok", "ZeroDivisionError"}
    /\ \A e \in EvalIds : evalr[e].made \in BOOLEAN
    /\ bond \in [Bonds -> Damages]

InitIdle ==
    /\ inst = [i \in InstIds |-> NoInst]
    /\ evalr = [e \in EvalIds |-> NoEval]
    /\ last = NoLast
    /\ resv = NoResv
    /\ step = NoStep
    /\ wk = [w \in Workers |-> NoWorker]

\* Spec: one law of unit modulus and horizon (its critical stretch follows
\* Gf), its evaluator, and the per-bond damage the caller stores
Init ==
    /\ InitIdle
    /\ bond \in [Bonds -> ValidDamages]

Next ==
    \/ \E Gf \in Params : Construct(1, 1, Gf, 1, 1, FALSE)
    \/ \E owner \in {0} \cup Constructed, sc \in ScArgs :
          calculate_bond_damage(1, owner, sc)
    \/ \E stretch \in Stretches, d \in Damages : Call(1, stretch, d)
    \/ \E b \in Bonds, stretch \in Stretches : Evaluate(1, b, stretch)

Spec == Init /\ [][Next]_vars

\* SpecCtor: construction of laws over the whole parameter range
InitCtor ==
    /\ InitIdle
    /\ bond = [b \in Bonds |-> 0]

NextCtor ==
    \/ \E i \in InstIds, E \in Params, Gf \in Params, horizon \in Params,
          thickness \in Params, numpy \in BOOLEAN :
          Construct(i, E, Gf, horizon, thickness, numpy)
    \/ \E variant \in Reserved, op \in BaseOps : ReservedCall(variant, op)

SpecCtor == InitCtor /\ [][NextCtor]_vars

\* SpecConc: one step of a caller whose workers share one law and one
\* evaluator; every bond belongs to exactly one worker (step.asg), and a
\* further evaluator may be created while the step runs.
UnitLaw == Linear_init([E |-> 1, Gf |-> 1, numpy |-> FALSE], [horizon |-> 1, thickness |-> 1])

InitConc ==
    /\ inst = [i \in InstIds |-> IF i = 1 THEN UnitLaw ELSE NoInst]
    /\ evalr = [e \in EvalIds |->
                  IF e = 1 THEN [made |-> TRUE, owner |-> 1, arg |-> UnitLaw.sc, sc |-> UnitLaw.sc]
                  ELSE NoEval]
    /\ bond \in [Bonds -> ValidDamages]
    /\ last = NoLast
    /\ resv = NoResv
    /\ \E st \in [Bonds -> {2, MaxStretch}], asg \in [Bonds -> Workers] :
          step = [stretch |-> st, d0 |-> bond, asg |-> asg, sc0 |-> UnitLaw.sc, done |-> {}]
    /\ wk = [w \in Workers |-> NoWorker]

NextConc ==
    \/ \E w \in Workers, b \in Bonds : WorkerEvaluate(w, b)
    \/ \E w \in Workers : WorkerStore(w)
    \/ \E k \in 0..MaxStretch : calculate_bond_damage(2, 0, StretchValue(k))

SpecConc == InitConc /\ [][NextConc]_vars

\* ------------------------------------------------------------------- claims
Called == last.e # 0

\* what the claims expect of a call with threshold sc
Expected(stretch, d, sc) == IF GreaterThan(stretch, sc) THEN One ELSE d

\* C1: the evaluator returned by calculate_bond_damage(sc) returns exactly
\* 1.0 when stretch > sc and exactly the previous damage d when
\* stretch <= sc; stretch == sc counts as not failed.
C1_LinearDamage ==
    Called =>
       LET sc == evalr[last.e].arg
       IN  /\ GreaterThan(last.stretch, sc) => last.ret = One
           /\ ~GreaterThan(last.stretch, sc) => last.ret = last.d
           /\ (last.stretch >= 0 /\ sc = StretchValue(last.stretch)) => last.ret = last.d

\* a call exactly at the threshold returned the half-damaged value it was given
C1_Witness ==
    /\ Called
    /\ last.stretch = 2
    /\ evalr[last.e].arg = StretchValue(2)
    /\ last.d = 1
    /\ last.ret = 1

\* C2: a bond's stored damage, started in [0,1] and replaced by what the
\* evaluator returns, never decreases, and once 1 it stays 1.
C2_NeverHeals ==
    [][\A b \in Bonds : /\ bond'[b] >= bond[b]
                        /\ bond[b] = One => bond'[b] = One]_vars

\* a failed bond was evaluated again with a stretch back below sc
C2_Witness ==
    /\ last.b # 0
    /\ last.d = One
    /\ last.stretch = -1
    /\ evalr[last.e].sc.kind = "fin"
    /\ bond[last.b] = One

\* C3: every result the evaluator returns lies in [0,1].
C3_Clamped == (Called /\ last.raised = "") => last.ret \in ValidDamages

C5_Immutable ==
    [][\A i \in InstIds : inst[i].state = "ok"
          => /\ inst'[i].c = inst[i].c
             /\ inst'[i].sc = inst[i].sc]_vars

\* an evaluator was made from the instance with another threshold, and called
C5_Witness ==
    /\ Called
    /\ evalr[last.e].owner # 0
    /\ evalr[last.e].arg # inst[evalr[last.e].owner].sc
    /\ last.b # 0

\* exactly one of the four parameters is zero
OneZero(r) ==
    Cardinality({f \in {"E", "Gf", "horizon", "thickness"} : r[f] = 0}) = 1

\* C6: a construction with a zero E, Gf, horizon or thickness ends in a
\* ConfigurationError, and no instance holds a zero, infinite or NaN c or sc.
C6_ConfigurationError ==
    \A i \in InstIds :
       /\ (inst[i].state # "none" /\ OneZero(inst[i])) => inst[i].state = "ConfigurationError"
       /\ inst[i].state = "ok" => (IsPositiveFinite(inst[i].c) /\ IsPositiveFinite(inst[i].sc))

\* C7: constructing or using Bilinear, Trilinear or NonLinear ends in an
\* UnimplementedLawError.
C7_Unimplemented == resv.op # "" => resv.outcome = "UnimplementedLawError"

\* C8: a call with a previous damage outside [0,1] fails with an
\* InvalidInputError.
C8_InvalidInput == (Called /\ last.d \notin ValidDamages) => last.raised = "InvalidInputError"

\* 9E / (pi * t * horizon^3) with the caller's thickness t
StiffnessWithThickness(r) ==
    Divide(9 * r.E, r.thickness * r.horizon * r.horizon * r.horizon, r.numpy)

\* C9: c is 9E / (pi * t * horizon^3) with t the caller's thickness, so two
\* laws that differ only in thickness have different stiffness.
C9_ThicknessUsed ==
    /\ \A i \in Constructed : inst[i].thickness > 0 => inst[i].c = StiffnessWithThickness(inst[i])
    /\ \A i, j \in Constructed :
          (/\ inst[i].E = inst[j].E /\ inst[i].E > 0
           /\ inst[i].horizon = inst[j].horizon
           /\ inst[i].thickness # inst[j].thickness)
             => inst[i].c # inst[j].c

\* C10: under every interleaving of the workers, each bond ends the step
\* with the damage a sequential evaluation gives it, and an evaluation
\* changes only the damage of the worker's own bond and no shared state.
C10_Concurrent ==
    /\ [](step.done = Bonds =>
            \A b \in Bonds : bond[b] = Expected(step.stretch[b], step.d0[b], step.sc0))
    /\ [][/\ \A b \in Bonds : bond'[b] # bond[b] =>
                \E w \in Workers : /\ wk[w].pc = "hold"
                                   /\ wk[w].b = b
                                   /\ step.asg[b] = w
          /\ inst' = inst
          /\ evalr'[1] = evalr[1]]_vars

\* two workers each finished a bond, one failing and one kept, while a second
\* evaluator with another threshold was created
C10_Witness ==
    /\ step.done = Bonds
    /\ evalr[2].made
    /\ evalr[2].sc # evalr[1].sc
    /\ \E b1, b2 \in Bonds :
          /\ step.asg[b1] # step.asg[b2]
          /\ bond[b1] = One /\ step.d0[b1] = 0
          /\ bond[b2] = 1 /\ step.d0[b2] = 1

====
